---- MODULE Spec2Model ----
(***************************************************************************)
(* Three CRUD inventory services (energy drinks, cars, sneakers) over a    *)
(* single-table SQLite store each: src/Energy.py, src/app.py,              *)
(* src/sneakers.py.  A table is a function from the ids of its rows to the *)
(* rows; a nullable column holds None (<<>>) or Some(v) (<<v>>); a string  *)
(* is a sequence of one-character strings, so that LIKE, lower() and the   *)
(* BINARY collation can be computed the way the store computes them.       *)
(***************************************************************************)
EXTENDS Integers, Sequences, FiniteSets, TLC

VARIABLES drinks, cars, sneakers, resp, issued, served, pc, loc

vars == <<drinks, cars, sneakers, resp, issued, served, pc, loc>>

-----------------------------------------------------------------------------
(* Bounds of the model *)

MaxId == 2
MaxStock == 2
MaxQty == 3
MaxViews == 2
NProcs == 2

-----------------------------------------------------------------------------
(* Values *)

None == <<>>
Some(v) == <<v>>
IsNone(x) == x = <<>>
Val(x) == x[1]

S_a == <<"a">>
S_b == <<"b">>
S_A == <<"A">>
S_ab == <<"a", "b">>
S_x == <<"x">>
S_empty == <<>>
S_us == <<"_">>
S_asc == <<"a", "s", "c">>
S_desc == <<"d", "e", "s", "c">>
S_DESC == <<"D", "E", "S", "C">>

EmptyTable == <<>>

Max(S) == CHOOSE m \in S : \A n \in S : n <= m

(* rowid of the next INSERT: an INTEGER PRIMARY KEY column without          *)
(* AUTOINCREMENT gets one more than the largest rowid in the table, 1 in an *)
(* empty table.                                                             *)
NextId(t) == IF DOMAIN t = {} THEN 1 ELSE Max(DOMAIN t) + 1

Insert(t, id, row) == [i \in DOMAIN t \cup {id} |-> IF i = id THEN row ELSE t[i]]
DeleteNotCommitted(t, id) == t
Delete(t, id) == [i \in DOMAIN t \ {id} |-> t[i]]

(* for key, value in body.dict(exclude_unset=True).items(): setattr(...) *)
SetAttrsNotNone(row, body) ==
  [f \in DOMAIN row |-> IF f \in DOMAIN body /\ ~IsNone(body[f]) THEN body[f] ELSE row[f]]
SetAttrs(row, body) ==
  [f \in DOMAIN row |-> IF f \in DOMAIN body THEN body[f] ELSE row[f]]

(* response_model: every field of the response schema is required and      *)
(* non-null, so a row holding NULL in one of them fails serialisation.      *)
Serialisable(row) == \A f \in DOMAIN row : ~IsNone(row[f])
Respond(row, ok) == IF Serialisable(row) THEN ok ELSE 500

Reply(op, id, arg, status, body) ==
  [op |-> op, id |-> id, arg |-> arg, status |-> status, body |-> body]
NoReply == Reply("none", 0, 0, 0, None)

Ids == 1..(MaxId + 1)


-----------------------------------------------------------------------------
(* Queries: filter, order_by, offset, limit *)

(* Python truthiness of an Optional query parameter: None, 0 and "" are    *)
(* false.                                                                   *)
TruthyInt(x) == ~IsNone(x) /\ Val(x) # 0
TruthyStr(x) == ~IsNone(x) /\ Val(x) # S_empty
TruthyName(x) == ~IsNone(x) /\ Val(x) # ""
SuppliedInt(x) == ~IsNone(x)
SuppliedStr(x) == ~IsNone(x)

(* str.lower(), and the ASCII case folding of LIKE *)
LowerChar(c) ==
  CASE c = "A" -> "a" [] c = "B" -> "b" [] c = "C" -> "c" [] c = "D" -> "d"
    [] c = "E" -> "e" [] c = "S" -> "s" [] OTHER -> c
Lower(str) == [i \in DOMAIN str |-> LowerChar(str[i])]

(* code points, for the BINARY collation of ORDER BY *)
Code(c) ==
  CASE c = "%" -> 37 [] c = "A" -> 65 [] c = "B" -> 66 [] c = "_" -> 95
    [] c = "a" -> 97 [] c = "b" -> 98 [] c = "x" -> 120 [] OTHER -> 127

RECURSIVE StrLess(_, _)
StrLess(a, b) ==
  IF b = <<>> THEN FALSE
  ELSE IF a = <<>> THEN TRUE
  ELSE IF Code(Head(a)) # Code(Head(b)) THEN Code(Head(a)) < Code(Head(b))
  ELSE StrLess(Tail(a), Tail(b))

(* pattern LIKE str: % matches any run of characters, _ any one character, *)
(* any other character itself without regard to ASCII case                  *)
RECURSIVE LikeMatch(_, _)
LikeMatch(pattern, str) ==
  IF pattern = <<>> THEN str = <<>>
  ELSE IF Head(pattern) = "%"
    THEN LikeMatch(Tail(pattern), str) \/ (str # <<>> /\ LikeMatch(pattern, Tail(str)))
  ELSE /\ str # <<>>
       /\ Head(pattern) = "_" \/ LowerChar(Head(pattern)) = LowerChar(Head(str))
       /\ LikeMatch(Tail(pattern), Tail(str))

(* column.contains(search): column LIKE '%' || search || '%'; NULL never matches *)
Contains(col, search) ==
  ~IsNone(col) /\ LikeMatch(<<"%">> \o search \o <<"%">>, Val(col))

(* column == value, column >= value, column <= value; NULL never matches *)
Eq(col, v) == ~IsNone(col) /\ Val(col) = v
Ge(col, v) == ~IsNone(col) /\ Val(col) >= v
Le(col, v) == ~IsNone(col) /\ Val(col) <= v

(* getattr(cls, sort_by, None): a column, another attribute of the mapped  *)
(* class (neither None nor something with .asc()/.desc()), or None          *)
OtherClassAttrs == {"metadata", "__tablename__"}
GetAttr(columns, name) ==
  IF name \in columns THEN "column"
  ELSE IF name \in OtherClassAttrs THEN "other"
  ELSE "none"

(* the sort key of row id of table t in column col; NULL sorts first *)
Key(t, id, col) == IF col = "id" THEN Some(id) ELSE t[id][col]
KeyLess(a, b, isStr) ==
  IF IsNone(b) THEN FALSE
  ELSE IF IsNone(a) THEN TRUE
  ELSE IF isStr THEN StrLess(Val(a), Val(b)) ELSE Val(a) < Val(b)

Perms(S) ==
  {f \in [1..Cardinality(S) -> S] : \A i, j \in DOMAIN f : i # j => f[i] # f[j]}

(* without ORDER BY the rows come in rowid order *)
NaturalOrder(S) == CHOOSE f \in Perms(S) : \A i, j \in DOMAIN f : i < j => f[i] < f[j]

(* ORDER BY col ASC | DESC: rows with equal keys come in any order *)
OrderBy(t, S, col, isStr, desc) ==
  {f \in Perms(S) : \A i, j \in DOMAIN f : i < j =>
     IF desc THEN ~KeyLess(Key(t, f[i], col), Key(t, f[j], col), isStr)
             ELSE ~KeyLess(Key(t, f[j], col), Key(t, f[i], col), isStr)}

(* the orders the query may produce, or {} when building it raises *)
Orders(t, S, columns, strColumns, sort_by, sort_order) ==
  LET attr == IF TruthyName(sort_by) THEN GetAttr(columns, Val(sort_by)) ELSE "none" IN
  IF attr = "other" THEN {}
  ELSE IF attr = "column"
    THEN OrderBy(t, S, Val(sort_by), Val(sort_by) \in strColumns, Lower(sort_order) = S_desc)
  ELSE {NaturalOrder(S)}

(* OFFSET skip LIMIT limit: a negative offset is 0, a negative limit is no limit *)
Paginate(order, skip, limit) ==
  LET off == IF skip < 0 THEN 0 ELSE skip
      last == IF limit < 0 \/ off + limit > Len(order) THEN Len(order) ELSE off + limit
  IN SubSeq(order, off + 1, last)

(* the response of a list request: 500 when the query cannot be built or a *)
(* returned row cannot be serialised                                        *)
ListReply(op, t, orders, params) ==
  IF orders = {}
    THEN resp' = Reply(op, 0, params, 500, None)
    ELSE \E order \in orders :
           LET rows == Paginate(order, params.skip, params.limit) IN
           IF \A i \in DOMAIN rows : Serialisable(t[rows[i]])
             THEN resp' = Reply(op, 0, params, 200, rows)
             ELSE resp' = Reply(op, 0, params, 500, None)

-----------------------------------------------------------------------------
(* Energy drinks: src/Energy.py *)

Stocks == (-1)..MaxStock
Quantities == (-1)..MaxQty

EnergyDrink(brand, stock) ==
  [brand |-> Some(brand), name |-> Some(S_x), volume_ml |-> Some(250),
   price |-> Some(100), stock |-> Some(stock)]

EnergyDrinkCreate == {EnergyDrink(S_a, s) : s \in Stocks}

EnergyDrinkUpdate ==
  {<<>>, [brand |-> None], [stock |-> None]} \cup {[stock |-> Some(s)] : s \in Stocks}

EnergyColumns == {"id", "brand", "name", "volume_ml", "price", "stock"}
EnergyStrColumns == {"brand", "name"}

EnergyParams(skip, limit, sort_by, sort_order, filter_brand, filter_volume, search) ==
  [skip |-> skip, limit |-> limit, sort_by |-> sort_by, sort_order |-> sort_order,
   filter_brand |-> filter_brand, filter_volume |-> filter_volume, search |-> search]

EnergyKept(p) ==
  {id \in DOMAIN drinks :
     /\ TruthyStr(p.filter_brand) => Eq(drinks[id].brand, Val(p.filter_brand))
     /\ TruthyInt(p.filter_volume) => Eq(drinks[id].volume_ml, Val(p.filter_volume))
     /\ TruthyStr(p.search) =>
          Contains(drinks[id].brand, Val(p.search)) \/ Contains(drinks[id].name, Val(p.search))}

read_energy_drinks(p) ==
  /\ ListReply("read_energy_drinks", drinks,
               Orders(drinks, EnergyKept(p), EnergyColumns, EnergyStrColumns,
                      p.sort_by, p.sort_order), p)
  /\ UNCHANGED <<drinks, cars, sneakers, issued, served, pc, loc>>


create_energy_drink(drink) ==
  LET id == NextId(drinks) IN
  /\ id <= MaxId
  /\ drinks' = Insert(drinks, id, drink)
  /\ issued' = issued \cup {id}
  /\ resp' = Reply("create_energy_drink", id, drink, Respond(drink, 200), Some(drink))
  /\ UNCHANGED <<cars, sneakers, served, pc, loc>>

read_energy_drink(drink_id) ==
  /\ IF drink_id \notin DOMAIN drinks
       THEN resp' = Reply("read_energy_drink", drink_id, 0, 404, None)
       ELSE resp' = Reply("read_energy_drink", drink_id, 0, Respond(drinks[drink_id], 200),
                          Some(drinks[drink_id]))
  /\ UNCHANGED <<drinks, cars, sneakers, issued, served, pc, loc>>

update_energy_drink(drink_id, drink) ==
  /\ IF drink_id \notin DOMAIN drinks
       THEN /\ resp' = Reply("update_energy_drink", drink_id, drink, 404, None)
            /\ UNCHANGED drinks
       ELSE LET row == SetAttrs(drinks[drink_id], drink) IN
            /\ drinks' = [drinks EXCEPT ![drink_id] = row]
            /\ resp' = Reply("update_energy_drink", drink_id, drink, Respond(row, 200), Some(row))
  /\ UNCHANGED <<cars, sneakers, issued, served, pc, loc>>

delete_energy_drink(drink_id) ==
  /\ IF drink_id \notin DOMAIN drinks
       THEN /\ resp' = Reply("delete_energy_drink", drink_id, 0, 404, None)
            /\ UNCHANGED drinks
       ELSE /\ drinks' = Delete(drinks, drink_id)
            /\ resp' = Reply("delete_energy_drink", drink_id, 0, 204, None)
  /\ UNCHANGED <<cars, sneakers, issued, served, pc, loc>>

(* db_drink.stock < quantity: comparing None with an int raises TypeError *)
StockCheck(stock, quantity) ==
  IF IsNone(stock) THEN 500 ELSE IF Val(stock) < quantity THEN 400 ELSE 200

Decrement(stock, quantity) == Some(Val(stock) - quantity)

buy_energy_drink(drink_id, quantity) ==
  /\ IF drink_id \notin DOMAIN drinks
       THEN /\ resp' = Reply("buy_energy_drink", drink_id, quantity, 404, None)
            /\ UNCHANGED drinks
       ELSE LET db_drink == drinks[drink_id]
                check == StockCheck(db_drink.stock, quantity) IN
            IF check # 200
              THEN /\ resp' = Reply("buy_energy_drink", drink_id, quantity, check, None)
                   /\ UNCHANGED drinks
              ELSE LET row == [db_drink EXCEPT !.stock = Decrement(@, quantity)] IN
                   /\ Val(row.stock) <= MaxStock
                   /\ drinks' = [drinks EXCEPT ![drink_id] = row]
                   /\ resp' = Reply("buy_energy_drink", drink_id, quantity, Respond(row, 200), Some(row))
  /\ UNCHANGED <<cars, sneakers, issued, served, pc, loc>>

InitEnergy ==
  /\ drinks = EmptyTable
  /\ cars = EmptyTable
  /\ sneakers = EmptyTable
  /\ resp = NoReply
  /\ issued = {}
  /\ served = <<>>
  /\ pc = <<>>
  /\ loc = <<>>

NextEnergy ==
  \/ \E drink \in EnergyDrinkCreate : create_energy_drink(drink)
  \/ \E id \in Ids : read_energy_drink(id)
  \/ \E id \in Ids, drink \in EnergyDrinkUpdate : update_energy_drink(id, drink)
  \/ \E id \in Ids : delete_energy_drink(id)
  \/ \E id \in Ids, q \in Quantities : buy_energy_drink(id, q)

SpecEnergy == InitEnergy /\ [][NextEnergy]_vars

(* C1: in every reachable state the stock of every stored energy drink is   *)
(* a number >= 0.                                                           *)
StockNeverNegative ==
  \A id \in DOMAIN drinks :
    ~IsNone(drinks[id].stock) /\ Val(drinks[id].stock) >= 0

(* C3: a buy of quantity q on an existing drink with stock s fails with 400 *)
(* and changes nothing when q > s, and otherwise succeeds (200) and stores  *)
(* exactly s - q, every other field and every other drink unchanged.        *)
BuyAllOrNothing ==
  [][(/\ resp'.op = "buy_energy_drink"
      /\ resp'.id \in DOMAIN drinks
      /\ ~IsNone(drinks[resp'.id].stock))
     => LET id == resp'.id
            q == resp'.arg
            s == Val(drinks[id].stock) IN
        IF q > s
          THEN resp'.status = 400 /\ drinks' = drinks
          ELSE /\ resp'.status = 200
               /\ drinks' = [drinks EXCEPT ![id].stock = Some(s - q)]]_vars

(* C4: every create returns an id that no earlier create has returned,      *)
(* whether or not the entity that had it has since been deleted.            *)
IdNeverReused ==
  [][resp'.op = "create_energy_drink" => resp'.id \notin issued]_vars

(* C9: a successful delete removes the row; a row comes into the table only *)
(* through a create returning its id; get, update, delete and buy on an id  *)
(* that is not in the table answer 404; and a request answered 404 leaves   *)
(* the table as it was.                                                     *)
NotFoundAfterDelete ==
  [][/\ (resp'.op = "delete_energy_drink" /\ resp'.status = 204) => resp'.id \notin DOMAIN drinks'
     /\ \A id \in DOMAIN drinks' \ DOMAIN drinks : resp'.op = "create_energy_drink" /\ resp'.id = id
     /\ (resp'.op \in {"read_energy_drink", "update_energy_drink", "delete_energy_drink",
                      "buy_energy_drink"} /\ resp'.id \notin DOMAIN drinks)
          => resp'.status = 404
     /\ resp'.status = 404 => drinks' = drinks]_vars

(* a buy answered 404 on the id of a drink that was created and then deleted *)
NotFoundAfterDeleteWitness ==
  /\ resp.op = "buy_energy_drink"
  /\ resp.status = 404
  /\ resp.id \in issued
  /\ resp.id \notin DOMAIN drinks
  /\ drinks # EmptyTable

-----------------------------------------------------------------------------
(* Cars: src/app.py *)

Car(make, year) ==
  [make |-> Some(make), model |-> Some(S_x), year |-> Some(year), color |-> Some(S_b)]

CarCreate == {Car(S_a, 2020)}

CarUpdate == {<<>>, [make |-> None], [make |-> Some(S_b)], [year |-> Some(0)]}

CarColumns == {"id", "make", "model", "year", "color", "views"}
CarStrColumns == {"make", "model", "color"}

CarParams(skip, limit, sort_by, sort_order, filter_make, filter_year, search) ==
  [skip |-> skip, limit |-> limit, sort_by |-> sort_by, sort_order |-> sort_order,
   filter_make |-> filter_make, filter_year |-> filter_year, search |-> search]

CarKept(p) ==
  {id \in DOMAIN cars :
     /\ TruthyStr(p.filter_make) => Eq(cars[id].make, Val(p.filter_make))
     /\ TruthyInt(p.filter_year) => Eq(cars[id].year, Val(p.filter_year))
     /\ TruthyStr(p.search) =>
          Contains(cars[id].make, Val(p.search)) \/ Contains(cars[id].model, Val(p.search))}

read_cars(p) ==
  /\ ListReply("read_cars", cars,
               Orders(cars, CarKept(p), CarColumns, CarStrColumns, p.sort_by, p.sort_order), p)
  /\ UNCHANGED <<drinks, cars, sneakers, issued, served, pc, loc>>

ViewsIncremented(views) == Some(Val(views) + 1)

(* served counts, for every stored car, the get-by-id requests answered 200 *)
(* since the car was created                                                *)
read_car(car_id) ==
  /\ IF car_id \notin DOMAIN cars
       THEN /\ resp' = Reply("read_car", car_id, 0, 404, None)
            /\ UNCHANGED <<cars, served>>
       ELSE LET car == [cars[car_id] EXCEPT !.views = ViewsIncremented(@)]
                status == Respond(car, 200) IN
            /\ Val(car.views) <= MaxViews
            /\ cars' = [cars EXCEPT ![car_id] = car]
            /\ resp' = Reply("read_car", car_id, 0, status, Some(car))
            /\ served' = [served EXCEPT ![car_id] = IF status = 200 THEN @ + 1 ELSE @]
  /\ UNCHANGED <<drinks, sneakers, issued, pc, loc>>

create_car(car) ==
  LET id == NextId(cars)
      db_car == [f \in DOMAIN car \cup {"views"} |-> IF f = "views" THEN Some(0) ELSE car[f]]
  IN
  /\ id <= MaxId
  /\ cars' = Insert(cars, id, db_car)
  /\ served' = Insert(served, id, 0)
  /\ issued' = issued \cup {id}
  /\ resp' = Reply("create_car", id, car, Respond(db_car, 200), Some(db_car))
  /\ UNCHANGED <<drinks, sneakers, pc, loc>>

update_car(car_id, car) ==
  /\ IF car_id \notin DOMAIN cars
       THEN /\ resp' = Reply("update_car", car_id, car, 404, None)
            /\ UNCHANGED cars
       ELSE LET db_car == SetAttrs(cars[car_id], car) IN
            /\ cars' = [cars EXCEPT ![car_id] = db_car]
            /\ resp' = Reply("update_car", car_id, car, Respond(db_car, 200), Some(db_car))
  /\ UNCHANGED <<drinks, sneakers, issued, served, pc, loc>>

delete_car(car_id) ==
  /\ IF car_id \notin DOMAIN cars
       THEN /\ resp' = Reply("delete_car", car_id, 0, 404, None)
            /\ UNCHANGED <<cars, served>>
       ELSE /\ cars' = Delete(cars, car_id)
            /\ served' = Delete(served, car_id)
            /\ resp' = Reply("delete_car", car_id, 0, 204, None)
  /\ UNCHANGED <<drinks, sneakers, issued, pc, loc>>

CarListParams ==
  {CarParams(0, 10, None, S_asc, None, None, None),
   CarParams(0, 10, Some("views"), S_desc, None, None, Some(S_a))}

InitCars == InitEnergy

NextCars ==
  \/ \E car \in CarCreate : create_car(car)
  \/ \E p \in CarListParams : read_cars(p)
  \/ \E id \in Ids : read_car(id)
  \/ \E id \in Ids, car \in CarUpdate : update_car(id, car)
  \/ \E id \in Ids : delete_car(id)

SpecCars == InitCars /\ [][NextCars]_vars

(* C6: with requests served one after another, the stored views of every   *)
(* car equals the number of get-by-id requests answered successfully for it *)
(* since it was created.                                                    *)
ViewsCountSuccessfulGets ==
  \A id \in DOMAIN cars : Val(cars[id].views) = served[id]

-----------------------------------------------------------------------------
(* Sneakers: src/sneakers.py.  Ratings are floats; the model takes the     *)
(* whole-numbered ones.                                                     *)

SneakerCreate == {[brand |-> Some(S_a), model |-> Some(S_x), price |-> Some(100)]}

Ratings == {-1, 0, 3, 5, 6}

SneakerUpdate ==
  {<<>>, [price |-> Some(0)], [rating |-> None]} \cup {[rating |-> Some(r)] : r \in Ratings}

SneakerColumns == {"id", "brand", "model", "price", "rating"}
SneakerStrColumns == {"brand", "model"}

SneakerParams(skip, limit, sort_by, sort_order, filter_brand, filter_price_min, filter_price_max, search) ==
  [skip |-> skip, limit |-> limit, sort_by |-> sort_by, sort_order |-> sort_order,
   filter_brand |-> filter_brand, filter_price_min |-> filter_price_min,
   filter_price_max |-> filter_price_max, search |-> search]

SneakerKept(p) ==
  {id \in DOMAIN sneakers :
     /\ TruthyStr(p.filter_brand) => Eq(sneakers[id].brand, Val(p.filter_brand))
     /\ TruthyInt(p.filter_price_min) => Ge(sneakers[id].price, Val(p.filter_price_min))
     /\ TruthyInt(p.filter_price_max) => Le(sneakers[id].price, Val(p.filter_price_max))
     /\ TruthyStr(p.search) =>
          \/ Contains(sneakers[id].brand, Val(p.search))
          \/ Contains(sneakers[id].model, Val(p.search))}

read_sneakers(p) ==
  /\ ListReply("read_sneakers", sneakers,
               Orders(sneakers, SneakerKept(p), SneakerColumns, SneakerStrColumns,
                      p.sort_by, p.sort_order), p)
  /\ UNCHANGED <<drinks, cars, sneakers, issued, served, pc, loc>>

read_sneaker(sneaker_id) ==
  /\ IF sneaker_id \notin DOMAIN sneakers
       THEN resp' = Reply("read_sneaker", sneaker_id, 0, 404, None)
       ELSE resp' = Reply("read_sneaker", sneaker_id, 0, Respond(sneakers[sneaker_id], 200),
                          Some(sneakers[sneaker_id]))
  /\ UNCHANGED <<drinks, cars, sneakers, issued, served, pc, loc>>

create_sneaker(sneaker) ==
  LET id == NextId(sneakers)
      db_sneaker == [f \in DOMAIN sneaker \cup {"rating"} |->
                       IF f = "rating" THEN Some(0) ELSE sneaker[f]]
  IN
  /\ id <= MaxId
  /\ sneakers' = Insert(sneakers, id, db_sneaker)
  /\ issued' = issued \cup {id}
  /\ resp' = Reply("create_sneaker", id, sneaker, Respond(db_sneaker, 200), Some(db_sneaker))
  /\ UNCHANGED <<drinks, cars, served, pc, loc>>

update_sneaker(sneaker_id, sneaker) ==
  /\ IF sneaker_id \notin DOMAIN sneakers
       THEN /\ resp' = Reply("update_sneaker", sneaker_id, sneaker, 404, None)
            /\ UNCHANGED sneakers
       ELSE LET db_sneaker == SetAttrs(sneakers[sneaker_id], sneaker) IN
            /\ sneakers' = [sneakers EXCEPT ![sneaker_id] = db_sneaker]
            /\ resp' = Reply("update_sneaker", sneaker_id, sneaker, Respond(db_sneaker, 200),
                             Some(db_sneaker))
  /\ UNCHANGED <<drinks, cars, issued, served, pc, loc>>

delete_sneaker(sneaker_id) ==
  /\ IF sneaker_id \notin DOMAIN sneakers
       THEN /\ resp' = Reply("delete_sneaker", sneaker_id, 0, 404, None)
            /\ UNCHANGED sneakers
       ELSE /\ sneakers' = Delete(sneakers, sneaker_id)
            /\ resp' = Reply("delete_sneaker", sneaker_id, 0, 204, None)
  /\ UNCHANGED <<drinks, cars, issued, served, pc, loc>>

(* rating: float = Query(..., ge=0, le=5): a value outside the range is     *)
(* answered 422 before the handler runs                                     *)
RatingAccepted(rating) == rating >= 0 /\ rating <= 5

rate_sneaker(sneaker_id, rating) ==
  /\ IF ~RatingAccepted(rating)
       THEN /\ resp' = Reply("rate_sneaker", sneaker_id, rating, 422, None)
            /\ UNCHANGED sneakers
       ELSE IF sneaker_id \notin DOMAIN sneakers
       THEN /\ resp' = Reply("rate_sneaker", sneaker_id, rating, 404, None)
            /\ UNCHANGED sneakers
       ELSE LET db_sneaker == [sneakers[sneaker_id] EXCEPT !.rating = Some(rating)] IN
            /\ sneakers' = [sneakers EXCEPT ![sneaker_id] = db_sneaker]
            /\ resp' = Reply("rate_sneaker", sneaker_id, rating, Respond(db_sneaker, 200),
                             Some(db_sneaker))
  /\ UNCHANGED <<drinks, cars, issued, served, pc, loc>>

InitSneakers == InitEnergy

NextSneakers ==
  \/ \E sneaker \in SneakerCreate : create_sneaker(sneaker)
  \/ \E id \in Ids : read_sneaker(id)
  \/ \E id \in Ids, sneaker \in SneakerUpdate : update_sneaker(id, sneaker)
  \/ \E id \in Ids : delete_sneaker(id)
  \/ \E id \in Ids, rating \in Ratings : rate_sneaker(id, rating)

SpecSneakers == InitSneakers /\ [][NextSneakers]_vars

(* C2: in every reachable state the rating of every stored sneaker lies in *)
(* [0, 5].                                                                  *)
RatingInRange ==
  \A id \in DOMAIN sneakers :
    /\ ~IsNone(sneakers[id].rating)
    /\ Val(sneakers[id].rating) >= 0
    /\ Val(sneakers[id].rating) <= 5

-----------------------------------------------------------------------------
(* One list request on populated tables *)

DrinkRow(brand, name, volume_ml) ==
  [brand |-> brand, name |-> name, volume_ml |-> Some(volume_ml),
   price |-> Some(100), stock |-> Some(1)]
CarRow(make, model, year) ==
  [make |-> make, model |-> model, year |-> Some(year), color |-> Some(S_b),
   views |-> Some(0)]
SneakerRow(brand, model, price) ==
  [brand |-> brand, model |-> model, price |-> Some(price), rating |-> Some(0)]

DrinkTables ==
  {<<DrinkRow(Some(S_a), Some(S_x), 250)>>,
   <<DrinkRow(Some(S_b), Some(S_x), 250), DrinkRow(Some(S_a), Some(S_ab), 0),
     DrinkRow(Some(S_a), Some(S_x), 250)>>,
   <<DrinkRow(Some(S_a), Some(S_x), 250), DrinkRow(None, Some(S_x), 250)>>}
CarTables ==
  {<<CarRow(Some(S_a), Some(S_x), 2020)>>,
   <<CarRow(Some(S_b), Some(S_x), 2020), CarRow(Some(S_a), Some(S_ab), 0),
     CarRow(Some(S_a), Some(S_x), 2020)>>,
   <<CarRow(Some(S_a), Some(S_x), 2020), CarRow(None, Some(S_x), 2020)>>}
SneakerTables ==
  {<<SneakerRow(Some(S_a), Some(S_x), 100)>>,
   <<SneakerRow(Some(S_b), Some(S_x), 100), SneakerRow(Some(S_a), Some(S_ab), 0),
     SneakerRow(Some(S_a), Some(S_x), 50)>>,
   <<SneakerRow(Some(S_a), Some(S_x), 100), SneakerRow(None, Some(S_x), 100)>>}

Skips == {0, 1}
Limits == {1, 10}
SortBys == {None, Some(""), Some("id"), Some("brand"), Some("make"), Some("color"),
            Some("metadata")}
SortOrders == {S_asc, S_DESC}
TextFilters == {None, Some(S_empty), Some(S_a)}
Searches == {None, Some(S_empty), Some(S_A), Some(S_us)}
VolumeFilters == {None, Some(0), Some(250)}
YearFilters == {None, Some(0), Some(2020)}
PriceFilters == {None, Some(0), Some(50)}

InitList ==
  /\ drinks \in DrinkTables
  /\ cars \in CarTables
  /\ sneakers \in SneakerTables
  /\ resp = NoReply
  /\ issued = {}
  /\ served = <<>>
  /\ pc = <<>>
  /\ loc = <<>>

NextList ==
  \/ /\ resp = NoReply
     /\ \E skip \in Skips, limit \in Limits, sort_by \in SortBys, sort_order \in SortOrders,
           filter_brand \in TextFilters, filter_volume \in VolumeFilters, search \in Searches :
          read_energy_drinks(EnergyParams(skip, limit, sort_by, sort_order, filter_brand,
                                          filter_volume, search))
  \/ /\ resp = NoReply
     /\ \E skip \in Skips, limit \in Limits, sort_by \in SortBys, sort_order \in SortOrders,
           filter_make \in TextFilters, filter_year \in YearFilters, search \in Searches :
          read_cars(CarParams(skip, limit, sort_by, sort_order, filter_make, filter_year,
                              search))
  \/ /\ resp = NoReply
     /\ \E skip \in Skips, limit \in Limits, sort_by \in SortBys, sort_order \in SortOrders,
           filter_brand \in TextFilters, filter_price_min \in PriceFilters,
           filter_price_max \in PriceFilters, search \in Searches :
          read_sneakers(SneakerParams(skip, limit, sort_by, sort_order, filter_brand,
                                      filter_price_min, filter_price_max, search))

SpecList == InitList /\ [][NextList]_vars

(* sub occurs in str as a run of consecutive characters *)
HasSubstring(str, sub) ==
  \E i \in 1..(Len(str) + 1) :
    i + Len(sub) - 1 <= Len(str) /\ SubSeq(str, i, i + Len(sub) - 1) = sub

(* C8: every entity a list request returns satisfies every filter that was  *)
(* supplied (exact match, price >= min, price <= max) and, when search is    *)
(* supplied, contains it in one of its two text fields; 0 and the empty      *)
(* string are supplied values like any other.                                *)
ListHonoursSuppliedFilters ==
  resp.status = 200 =>
    LET p == resp.arg IN
    /\ resp.op = "read_energy_drinks" =>
         \A i \in DOMAIN resp.body : LET row == drinks[resp.body[i]] IN
           /\ SuppliedStr(p.filter_brand) => row.brand = p.filter_brand
           /\ SuppliedInt(p.filter_volume) => row.volume_ml = p.filter_volume
           /\ SuppliedStr(p.search) =>
                \/ HasSubstring(Val(row.brand), Val(p.search))
                \/ HasSubstring(Val(row.name), Val(p.search))
    /\ resp.op = "read_cars" =>
         \A i \in DOMAIN resp.body : LET row == cars[resp.body[i]] IN
           /\ SuppliedStr(p.filter_make) => row.make = p.filter_make
           /\ SuppliedInt(p.filter_year) => row.year = p.filter_year
           /\ SuppliedStr(p.search) =>
                \/ HasSubstring(Val(row.make), Val(p.search))
                \/ HasSubstring(Val(row.model), Val(p.search))
    /\ resp.op = "read_sneakers" =>
         \A i \in DOMAIN resp.body : LET row == sneakers[resp.body[i]] IN
           /\ SuppliedStr(p.filter_brand) => row.brand = p.filter_brand
           /\ SuppliedInt(p.filter_price_min) => Val(row.price) >= Val(p.filter_price_min)
           /\ SuppliedInt(p.filter_price_max) => Val(row.price) <= Val(p.filter_price_max)
           /\ SuppliedStr(p.search) =>
                \/ HasSubstring(Val(row.brand), Val(p.search))
                \/ HasSubstring(Val(row.model), Val(p.search))

(* the response a list request with these params and no sort_by would get,  *)
(* when that request succeeds                                                *)
UnsortedAnswer(t, kept, p, r) ==
  LET rows == Paginate(NaturalOrder(kept), p.skip, p.limit) IN
  (\A i \in DOMAIN rows : Serialisable(t[rows[i]])) => r.status = 200 /\ r.body = rows

(* C10: a list request whose sort_by is a string that names no column of    *)
(* the resource succeeds with the page the same request without sort_by     *)
(* returns.                                                                  *)
UnknownSortIgnored ==
  LET p == resp.arg IN
  /\ (resp.op = "read_energy_drinks" /\ ~IsNone(p.sort_by) /\ Val(p.sort_by) \notin EnergyColumns)
       => UnsortedAnswer(drinks, EnergyKept(p), p, resp)
  /\ (resp.op = "read_cars" /\ ~IsNone(p.sort_by) /\ Val(p.sort_by) \notin CarColumns)
       => UnsortedAnswer(cars, CarKept(p), p, resp)
  /\ (resp.op = "read_sneakers" /\ ~IsNone(p.sort_by) /\ Val(p.sort_by) \notin SneakerColumns)
       => UnsortedAnswer(sneakers, SneakerKept(p), p, resp)

-----------------------------------------------------------------------------
(* One update request on populated tables *)

(* the request bodies over the fields of a schema: each field is left out, *)
(* null, or a value of its type ("b" for a string, 0 for a number)          *)
PartialBodies(fields, strColumns) ==
  UNION {{[f \in fs |-> IF null[f] THEN None
                        ELSE Some(IF f \in strColumns THEN S_b ELSE 0)] :
            null \in [fs -> BOOLEAN]} : fs \in SUBSET fields}

EnergyBodies ==
  PartialBodies({"brand", "name", "volume_ml", "price", "stock"}, EnergyStrColumns)
CarBodies == PartialBodies({"make", "model", "year", "color"}, CarStrColumns)
SneakerBodies == PartialBodies({"brand", "model", "price", "rating"}, SneakerStrColumns)

InitUpdate == InitList

NextUpdate ==
  \/ /\ resp = NoReply
     /\ \E id \in Ids, drink \in EnergyBodies : update_energy_drink(id, drink)
  \/ /\ resp = NoReply
     /\ \E id \in Ids, car \in CarBodies : update_car(id, car)
  \/ /\ resp = NoReply
     /\ \E id \in Ids, sneaker \in SneakerBodies : update_sneaker(id, sneaker)

SpecUpdate == InitUpdate /\ [][NextUpdate]_vars

(* table t2 is table t with exactly the fields of body written into row id *)
WrittenExactly(t, t2, id, body) ==
  /\ DOMAIN t2 = DOMAIN t
  /\ \A i \in DOMAIN t :
       /\ DOMAIN t2[i] = DOMAIN t[i]
       /\ \A f \in DOMAIN t[i] :
            t2[i][f] = IF i = id /\ f \in DOMAIN body THEN body[f] ELSE t[i][f]

(* C5: an update of an existing entity writes exactly the fields present in *)
(* the body, with the values supplied (null and zero included), and leaves  *)
(* every absent field, the id and every other entity as they were; an       *)
(* empty body leaves the entity identical.                                  *)
UpdateWritesExactlySuppliedFields ==
  [][/\ (resp'.op = "update_energy_drink" /\ resp'.id \in DOMAIN drinks)
          => /\ WrittenExactly(drinks, drinks', resp'.id, resp'.arg)
             /\ cars' = cars /\ sneakers' = sneakers
             /\ resp'.status = 200 => resp'.body = Some(drinks'[resp'.id])
     /\ (resp'.op = "update_car" /\ resp'.id \in DOMAIN cars)
          => /\ WrittenExactly(cars, cars', resp'.id, resp'.arg)
             /\ drinks' = drinks /\ sneakers' = sneakers
             /\ resp'.status = 200 => resp'.body = Some(cars'[resp'.id])
     /\ (resp'.op = "update_sneaker" /\ resp'.id \in DOMAIN sneakers)
          => /\ WrittenExactly(sneakers, sneakers', resp'.id, resp'.arg)
             /\ drinks' = drinks /\ cars' = cars
             /\ resp'.status = 200 => resp'.body = Some(sneakers'[resp'.id])]_vars

(* a successful update of one of several drinks whose body supplies a zero  *)
(* and leaves other fields out                                              *)
UpdateWritesExactlySuppliedFieldsWitness ==
  /\ resp.op = "update_energy_drink"
  /\ resp.status = 200
  /\ Cardinality(DOMAIN drinks) >= 2
  /\ DOMAIN resp.arg = {"price"}
  /\ resp.arg["price"] = Some(0)
  /\ drinks[resp.id].price = Some(0)
  /\ drinks[resp.id].volume_ml = Some(250)

-----------------------------------------------------------------------------
(* Overlapping buy requests: each request runs in its own worker thread    *)
(* with its own session; the SELECT of line 134 and the UPDATE and COMMIT   *)
(* of line 141 are separate statements, and no lock is held between them.   *)

Procs == 1..NProcs

Idle == [id |-> 0, quantity |-> 0, db_drink |-> None, status |-> 0]

(* lines 134-138: the row is loaded into the session and checked *)
buy_select(p, drink_id, quantity) ==
  /\ pc[p] = "idle"
  /\ IF drink_id \notin DOMAIN drinks
       THEN /\ pc' = [pc EXCEPT ![p] = "done"]
            /\ loc' = [loc EXCEPT ![p] = [id |-> drink_id, quantity |-> quantity,
                                          db_drink |-> None, status |-> 404]]
            /\ resp' = Reply("buy_energy_drink", drink_id, quantity, 404, None)
       ELSE LET db_drink == drinks[drink_id]
                check == StockCheck(db_drink.stock, quantity) IN
            IF check # 200
              THEN /\ pc' = [pc EXCEPT ![p] = "done"]
                   /\ loc' = [loc EXCEPT ![p] = [id |-> drink_id, quantity |-> quantity,
                                                 db_drink |-> Some(db_drink), status |-> check]]
                   /\ resp' = Reply("buy_energy_drink", drink_id, quantity, check, None)
              ELSE /\ pc' = [pc EXCEPT ![p] = "commit"]
                   /\ loc' = [loc EXCEPT ![p] = [id |-> drink_id, quantity |-> quantity,
                                                 db_drink |-> Some(db_drink), status |-> 0]]
                   /\ UNCHANGED resp
  /\ UNCHANGED <<drinks, cars, sneakers, issued, served>>

(* the stock the UPDATE stores: computed from the row the session loaded *)
StockFromStore(stored, loaded, quantity) == Decrement(stored, quantity)
StockToStore(stored, loaded, quantity) == Decrement(loaded, quantity)

(* lines 140-143: UPDATE energy_drinks SET stock = ? WHERE id = ?, COMMIT, *)
(* and the row is read back                                                 *)
buy_commit(p) ==
  /\ pc[p] = "commit"
  /\ LET id == loc[p].id
         row == [drinks[id] EXCEPT !.stock =
                   StockToStore(@, Val(loc[p].db_drink).stock, loc[p].quantity)]
         status == Respond(row, 200) IN
     /\ drinks' = [drinks EXCEPT ![id] = row]
     /\ pc' = [pc EXCEPT ![p] = "done"]
     /\ loc' = [loc EXCEPT ![p].status = status]
     /\ resp' = Reply("buy_energy_drink", id, loc[p].quantity, status, Some(row))
  /\ UNCHANGED <<cars, sneakers, issued, served>>

RaceTables ==
  {<<EnergyDrink(S_a, s)>> : s \in 0..MaxStock}
    \cup {<<EnergyDrink(S_a, s), EnergyDrink(S_b, 1)>> : s \in 0..MaxStock}

InitRace ==
  /\ drinks \in RaceTables
  /\ cars = EmptyTable
  /\ sneakers = EmptyTable
  /\ resp = NoReply
  /\ issued = {}
  /\ served = <<>>
  /\ pc = [p \in Procs |-> "idle"]
  /\ loc = [p \in Procs |-> Idle]

NextRace ==
  \/ \E p \in Procs, id \in Ids, q \in Quantities : buy_select(p, id, q)
  \/ \E p \in Procs : buy_commit(p)

SpecRace == InitRace /\ [][NextRace]_vars

(* C7: nothing protects the read-then-write of a buy: the request that      *)
(* passed the stock check on the stock it loaded commits that stock minus   *)
(* its quantity and succeeds, whatever the store holds by then, so of two   *)
(* overlapping buys the later commit overwrites the earlier one.            *)
BuyCommitsFromLoadedStock ==
  [][\A p \in Procs :
       (pc[p] = "commit" /\ pc'[p] = "done")
         => LET loaded == Val(Val(loc[p].db_drink).stock) IN
            /\ loaded >= loc[p].quantity
            /\ loc'[p].status = 200
            /\ drinks'[loc[p].id].stock = Some(loaded - loc[p].quantity)]_vars

(* two buys of the same drink that loaded the same stock s, each for a     *)
(* quantity in 1..s, both answered 200: the stored stock is not s less both *)
(* quantities, and more than s was sold                                     *)
LostUpdateWitness ==
  \E p, q \in Procs :
    /\ p # q
    /\ pc[p] = "done" /\ pc[q] = "done"
    /\ loc[p].status = 200 /\ loc[q].status = 200
    /\ loc[p].id = loc[q].id
    /\ loc[p].db_drink = loc[q].db_drink
    /\ LET s == Val(Val(loc[p].db_drink).stock) IN
       /\ loc[p].quantity \in 1..s
       /\ loc[q].quantity \in 1..s
       /\ drinks[loc[p].id].stock # Some(s - loc[p].quantity - loc[q].quantity)
       /\ loc[p].quantity + loc[q].quantity > s

====
